---- MODULE Spec2Model ----
(***************************************************************************)
(* Model of src/transforms/transform.py: the transform objects, the        *)
(* payloads a caller hands to them (image buffers, point arrays, rotated   *)
(* boxes) and the operations apply_image, apply_coords,                    *)
(* apply_segmentation, the registered rotated-box handlers and inverse().  *)
(*                                                                         *)
(* A call is modelled as a function from (self, argument object) to the    *)
(* triple (self after the call, argument object after the call, result):   *)
(* Python passes arrays by reference, so a method can write into the       *)
(* caller's array and into its own fields, and both are observable.        *)
(*                                                                         *)
(* Numbers.  Floating point values are modelled as exact rationals <<n,d>> *)
(* (rounding error of the order of 1e-16 is below what the model sees).    *)
(* An array keeps its dtype: a float stored into an integer array is      *)
(* truncated toward zero.                                                  *)
(* Pixel values produced by the numeric backend (PIL / OpenCV resampling   *)
(* and warping) are not computed: such pixels are the marker BackendPx.    *)
(***************************************************************************)
EXTENDS Integers, Sequences, FiniteSets, TLC

\* ------------------------------------------------------------------ bounds
MaxDim == 2
MaxCoord == 1
MaxPts == 1
MaxReuse == 1
MaxList == 2

\* ------------------------------------------------------------- rationals
Abs(x) == IF x < 0 THEN -x ELSE x

RECURSIVE GCD(_, _)
GCD(a, b) == IF b = 0 THEN a ELSE GCD(b, a % b)

RNorm(n, d) ==
    LET g == GCD(Abs(n), Abs(d))
        s == IF d < 0 THEN -1 ELSE 1
    IN  <<s * (n \div g), s * (d \div g)>>  \* d # 0, so g >= 1

R(i) == <<i, 1>>
RAdd(p, q) == RNorm(p[1] * q[2] + q[1] * p[2], p[2] * q[2])
RNeg(p) == <<-p[1], p[2]>>
RSub(p, q) == RAdd(p, RNeg(q))
RMul(p, q) == RNorm(p[1] * q[1], p[2] * q[2])
RDiv(p, q) == RNorm(p[1] * q[2], p[2] * q[1])
RLess(p, q) == p[1] * q[2] < q[1] * p[2]
RAbs(p) == <<Abs(p[1]), p[2]>>
RFloor(p) == p[1] \div p[2]

\* float -> int conversion of numpy (astype(int), assignment into an int
\* array) and of Python's int(): truncation toward zero
Trunc(p) == IF p[1] >= 0 THEN p[1] \div p[2] ELSE -((-p[1]) \div p[2])

\* np.rint: round to nearest, ties to even
Rint(p) ==
    LET f == RFloor(p)
        r == RSub(p, R(f))          \* 0 <= r < 1
    IN  IF RLess(r, <<1, 2>>) THEN f
        ELSE IF RLess(<<1, 2>>, r) THEN f + 1
        ELSE IF f % 2 = 0 THEN f ELSE f + 1

\* the value an array of the given dtype holds after `a[...] = q`
Store(dtype, q) == IF dtype = "int" THEN R(Trunc(q)) ELSE q

SeqMap(Op(_), s) == [i \in DOMAIN s |-> Op(s[i])]

\* ---------------------------------------------------------------- payloads
\* An image buffer: h rows, w columns; c = 0 is a two-dimensional array
\* (shape (h, w)), c >= 1 a three-dimensional one (shape (h, w, c)).
\* px lists the pixels row by row, each pixel the sequence of its channels.
None == [kind |-> "none"]

BackendPx == <<-1>>

Image(h, w, c, pixels) == [kind |-> "image", h |-> h, w |-> w, c |-> c, px |-> pixels]

Uniform(h, w, c, p) == Image(h, w, c, [i \in 1..(h * w) |-> p])

\* an array the numeric backend (PIL, OpenCV, torch) has produced
Backend(h, w, c) == Uniform(h, w, c, BackendPx)

ndim(img) == IF img.c = 0 THEN 2 ELSE 3

\* an N x 2 array of points, each <<x, y>>
Coords(dtype, pts) == [kind |-> "coords", dtype |-> dtype, pts |-> pts]

\* an N x 5 array of rotated boxes, each <<cx, cy, w, h, angle>>
RBoxes(dtype, boxes) == [kind |-> "rotated_box", dtype |-> dtype, boxes |-> boxes]

\* ----------------------------------------------------------------- results
Ret(v) == [tag |-> "value", exc |-> "", val |-> v]
Raise(e) == [tag |-> "raise", exc |-> e, val |-> None]
NoCall == [tag |-> "none", exc |-> "", val |-> None]

\* what a call leaves behind: the transform's fields, the caller's
\* argument object, and the value returned (or the exception raised)
Out(self, a, r) == [self |-> self, arg |-> a, ret |-> r]

\* ------------------------------------------------------- fvcore transforms
NoOpTransform == [cls |-> "NoOpTransform"]

HFlipTransform(width) == [cls |-> "HFlipTransform", width |-> width]

CropTransform(x0, y0, w, h) ==
    [cls |-> "CropTransform", x0 |-> x0, y0 |-> y0, w |-> w, h |-> h]

\* Python's a[lo:hi] on an axis of length n: the number of elements selected
SliceLen(lo, hi, n) ==
    LET clip(i) == IF i < 0 THEN (IF i + n < 0 THEN 0 ELSE i + n)
                   ELSE (IF i > n THEN n ELSE i)
        a == clip(lo)
        b == clip(hi)
    IN  IF b > a THEN b - a ELSE 0

\* img[y0 : y0 + h, x0 : x0 + w]
CropTransform_apply_image(self, img) ==
    Out(self, img,
        Ret(Backend(SliceLen(self.y0, self.y0 + self.h, img.h),
                    SliceLen(self.x0, self.x0 + self.w, img.w), img.c)))

\* --------------------------------------------------------- ExtentTransform
ExtentTransform(src_rect, output_size, interp, fill) ==
    [cls |-> "ExtentTransform", src_rect |-> src_rect, output_size |-> output_size,
     interp |-> interp, fill |-> fill]

ExtentTransform_apply_image(self, img, interp) ==
    LET h == self.output_size[1]
        w == self.output_size[2]
    IN  Out(self, img, Ret(Backend(h, w, img.c)))

ExtentTransform_apply_coords(self, coords) ==
    LET h == R(self.output_size[1])
        w == R(self.output_size[2])
        x0 == R(self.src_rect[1])
        y0 == R(self.src_rect[2])
        x1 == R(self.src_rect[3])
        y1 == R(self.src_rect[4])
        half == <<1, 2>>
        f(p) == <<RAdd(RMul(RSub(p[1], RMul(half, RAdd(x0, x1))), RDiv(w, RSub(x1, x0))),
                       RMul(half, w)),
                  RAdd(RMul(RSub(p[2], RMul(half, RAdd(y0, y1))), RDiv(h, RSub(y1, y0))),
                       RMul(half, h))>>
    IN  Out(self, coords, Ret(Coords("float", SeqMap(f, coords.pts))))

ExtentTransform_apply_segmentation(self, segmentation) ==
    ExtentTransform_apply_image(self, segmentation, "NEAREST")

\* --------------------------------------------------------- ResizeTransform
ResizeTransform(h, w, new_h, new_w, interp) ==
    [cls |-> "ResizeTransform", h |-> h, w |-> w, new_h |-> new_h, new_w |-> new_w,
     interp |-> IF interp = "None" THEN "BILINEAR" ELSE interp]

\* both the PIL branch (uint8) and the torch branch give an array of
\* shape (new_h, new_w) with the channels of the input
ResizeTransform_apply_image(self, img, interp) ==
    IF <<img.h, img.w>> # <<self.h, self.w>>
    THEN Out(self, img, Raise("AssertionError"))
    ELSE Out(self, img, Ret(Backend(self.new_h, self.new_w, img.c)))

\* writes into the caller's array and returns that same array
ResizeTransform_apply_coords(self, coords) ==
    LET sx == RDiv(R(self.new_w), R(self.w))
        sy == RDiv(R(self.new_h), R(self.h))
        f(p) == <<Store(coords.dtype, RMul(p[1], sx)), Store(coords.dtype, RMul(p[2], sy))>>
        new == Coords(coords.dtype, SeqMap(f, coords.pts))
    IN  Out(self, new, Ret(new))

ResizeTransform_apply_segmentation(self, segmentation) ==
    ResizeTransform_apply_image(self, segmentation, "NEAREST")

ResizeTransform_inverse(self) ==
    Out(self, None,
        Ret(ResizeTransform(self.new_h, self.new_w, self.h, self.w, self.interp)))

\* ------------------------------------------------------- RotationTransform
\* np.cos / np.sin of an angle in whole degrees, to three decimals
\* (multiples of 30 and 45 degrees only)
TrigBase(a) ==
    CASE a = 0 -> <<R(1), R(0)>>
      [] a = 30 -> <<<<433, 500>>, <<1, 2>>>>
      [] a = 45 -> <<<<707, 1000>>, <<707, 1000>>>>
      [] a = 60 -> <<<<1, 2>>, <<433, 500>>>>
      [] a = 90 -> <<R(0), R(1)>>

Cos(angle) ==
    LET a == angle % 360
    IN  IF a <= 90 THEN TrigBase(a)[1]
        ELSE IF a <= 180 THEN RNeg(TrigBase(180 - a)[1])
        ELSE IF a <= 270 THEN RNeg(TrigBase(a - 180)[1])
        ELSE TrigBase(360 - a)[1]

Sin(angle) ==
    LET a == angle % 360
    IN  IF a <= 90 THEN TrigBase(a)[2]
        ELSE IF a <= 180 THEN TrigBase(180 - a)[2]
        ELSE IF a <= 270 THEN RNeg(TrigBase(a - 180)[2])
        ELSE RNeg(TrigBase(360 - a)[2])

\* cv2.transform of one point by a 2 x 3 matrix
Affine(m, p) ==
    <<RAdd(RAdd(RMul(m[1][1], p[1]), RMul(m[1][2], p[2])), m[1][3]),
      RAdd(RAdd(RMul(m[2][1], p[1]), RMul(m[2][2], p[2])), m[2][3])>>

\* cv2.getRotationMatrix2D(center, angle, 1)
getRotationMatrix2D(center, angle) ==
    LET al == Cos(angle)
        be == Sin(angle)
    IN  << <<al, be, RSub(RMul(RSub(R(1), al), center[1]), RMul(be, center[2]))>>,
           <<RNeg(be), al, RAdd(RMul(be, center[1]), RMul(RSub(R(1), al), center[2]))>> >>

RotationTransform_create_rotation_matrix(self, offset) ==
    LET center == <<RAdd(self.center[1], offset), RAdd(self.center[2], offset)>>
        rm == getRotationMatrix2D(center, self.angle)
        rot_im_center == Affine(rm, <<RAdd(self.image_center[1], offset),
                                      RAdd(self.image_center[2], offset)>>)
        new_center == <<RSub(RAdd(RDiv(R(self.bound_w), R(2)), offset), rot_im_center[1]),
                        RSub(RAdd(RDiv(R(self.bound_h), R(2)), offset), rot_im_center[2])>>
    IN  IF self.expand
        THEN << <<rm[1][1], rm[1][2], RAdd(rm[1][3], new_center[1])>>,
                <<rm[2][1], rm[2][2], RAdd(rm[2][3], new_center[2])>> >>
        ELSE rm

\* center = "None" is the default argument: the image centre
RotationTransform(h, w, angle, expand, center, interp) ==
    LET image_center == <<RDiv(R(w), R(2)), RDiv(R(h), R(2))>>
        abs_cos == RAbs(Cos(angle))
        abs_sin == RAbs(Sin(angle))
        attrs == [cls |-> "RotationTransform", h |-> h, w |-> w, angle |-> angle,
                  expand |-> expand,
                  center |-> IF center = "None" THEN image_center ELSE center,
                  interp |-> IF interp = "None" THEN "INTER_LINEAR" ELSE interp,
                  image_center |-> image_center,
                  bound_w |-> IF expand
                              THEN Rint(RAdd(RMul(R(h), abs_sin), RMul(R(w), abs_cos)))
                              ELSE w,
                  bound_h |-> IF expand
                              THEN Rint(RAdd(RMul(R(h), abs_cos), RMul(R(w), abs_sin)))
                              ELSE h]
    IN  [cls |-> attrs.cls, h |-> h, w |-> w, angle |-> angle, expand |-> expand,
         center |-> attrs.center, interp |-> attrs.interp,
         image_center |-> image_center,
         bound_w |-> attrs.bound_w, bound_h |-> attrs.bound_h,
         rm_coords |-> RotationTransform_create_rotation_matrix(attrs, R(0)),
         rm_image |-> RotationTransform_create_rotation_matrix(attrs, <<-1, 2>>)]

\* a variant that remembers the size of the image it was last given, the way
\* RandomFlip.flip_img and Pad.pad_img do
RotationTransform_apply_image_remembers(self, img, interp) ==
    LET me == [self EXCEPT !.h = img.h, !.w = img.w]
    IN  IF img.h = 0 \/ me.angle % 360 = 0
        THEN Out(me, img, Ret(img))
        ELSE Out(me, img,
                 Ret(Backend(me.bound_h, me.bound_w, IF img.c = 1 THEN 0 ELSE img.c)))

\* a variant whose shortcut tests the angle against 0 only
RotationTransform_apply_image_zero_only(self, img, interp) ==
    IF img.h = 0 \/ self.angle = 0
    THEN Out(self, img, Ret(img))
    ELSE IF <<img.h, img.w>> # <<self.h, self.w>>
    THEN Out(self, img, Raise("AssertionError"))
    ELSE Out(self, img,
             Ret(Backend(self.bound_h, self.bound_w, IF img.c = 1 THEN 0 ELSE img.c)))

\* cv2.warpAffine returns a two-dimensional array for a one-channel input
RotationTransform_apply_image(self, img, interp) ==
    IF img.h = 0 \/ self.angle % 360 = 0
    THEN Out(self, img, Ret(img))
    ELSE IF <<img.h, img.w>> # <<self.h, self.w>>
    THEN Out(self, img, Raise("AssertionError"))
    ELSE Out(self, img,
             Ret(Backend(self.bound_h, self.bound_w, IF img.c = 1 THEN 0 ELSE img.c)))

\* np.asarray(coords, dtype=float) converts without writing to the caller's array
RotationTransform_apply_coords(self, coords) ==
    LET fl == Coords("float", coords.pts)
        f(p) == Affine(self.rm_coords, p)
    IN  IF Len(coords.pts) = 0 \/ self.angle % 360 = 0
        THEN Out(self, coords, Ret(fl))
        ELSE Out(self, coords, Ret(Coords("float", SeqMap(f, coords.pts))))

RotationTransform_apply_segmentation(self, segmentation) ==
    RotationTransform_apply_image(self, segmentation, "INTER_NEAREST")

\* a variant that hands the canvas size to the rotation as (w, h)
RotationTransform_inverse_swapped(self) ==
    IF ~self.expand
    THEN Out(self, None, Raise("NotImplementedError"))
    ELSE LET rotation == RotationTransform(self.bound_w, self.bound_h, -self.angle,
                                           TRUE, "None", self.interp)
             crop == CropTransform((rotation.bound_w - self.w) \div 2,
                                   (rotation.bound_h - self.h) \div 2, self.w, self.h)
         IN  Out(self, None, Ret(<<rotation, crop>>))

\* the TransformList [rotation, crop] is the sequence of its two transforms
RotationTransform_inverse(self) ==
    IF ~self.expand
    THEN Out(self, None, Raise("NotImplementedError"))
    ELSE LET rotation == RotationTransform(self.bound_h, self.bound_w, -self.angle,
                                           TRUE, "None", self.interp)
             crop == CropTransform((rotation.bound_w - self.w) \div 2,
                                   (rotation.bound_h - self.h) \div 2, self.w, self.h)
         IN  Out(self, None, Ret(<<rotation, crop>>))

\* ------------------------------------------ ColorTransform, PILColorTransform
\* an optional constructor argument: Python's None, or a value
NoneVal == [none |-> TRUE]
Some(x) == [none |-> FALSE, v |-> x]

\* the caller-supplied callable: the model knows two, both without side effects
CallOp(op, img) ==
    IF op = "invert"
    THEN Image(img.h, img.w, img.c, [i \in DOMAIN img.px |-> [k \in DOMAIN img.px[i] |-> 255 - img.px[i][k]]])
    ELSE img

ColorTransform(op) == [cls |-> "ColorTransform", op |-> op]

ColorTransform_apply_image(self, img) == Out(self, img, Ret(CallOp(self.op, img)))

ColorTransform_apply_coords(self, coords) == Out(self, coords, Ret(coords))

ColorTransform_inverse(self) == Out(self, None, Ret(NoOpTransform))

ColorTransform_apply_segmentation(self, segmentation) ==
    Out(self, segmentation, Ret(segmentation))

PILColorTransform(op) == [cls |-> "PILColorTransform", op |-> op]

PILColorTransform_apply_image(self, img) == ColorTransform_apply_image(self, img)

\* --------------------------------------------------- ColorDistortTransform
ColorDistortTransform(alpha, beta, h_delta, s_alpha) ==
    [cls |-> "ColorDistortTransform", alpha |-> alpha, beta |-> beta,
     h_delta |-> h_delta, s_alpha |-> s_alpha]

\* _convert on one channel value of a uint8 array: scale, bias, clip, store
ColorDistortTransform_convert(p, alpha, beta) ==
    LET tmp == RAdd(RMul(R(p), alpha), beta)
        lo == IF RLess(tmp, R(0)) THEN R(0) ELSE tmp
        hi == IF RLess(R(255), lo) THEN R(255) ELSE lo
    IN  Trunc(hi)

\* a variant that scales first and adds the bias second
ColorDistortTransform_pre_scale_first(self, img) ==
    LET b(p) == IF self.beta.none THEN p ELSE ColorDistortTransform_convert(p, R(1), self.beta.v)
        a(p) == IF self.alpha.none THEN p ELSE ColorDistortTransform_convert(p, self.alpha.v, R(0))
    IN  [i \in DOMAIN img.px |-> [k \in DOMAIN img.px[i] |-> b(a(img.px[i][k]))]]

\* lines 311-315: the buffer handed to the BGR -> HSV conversion
ColorDistortTransform_pre(self, img) ==
    LET b(p) == IF self.beta.none THEN p ELSE ColorDistortTransform_convert(p, R(1), self.beta.v)
        a(p) == IF self.alpha.none THEN p ELSE ColorDistortTransform_convert(p, self.alpha.v, R(0))
    IN  [i \in DOMAIN img.px |-> [k \in DOMAIN img.px[i] |-> a(b(img.px[i][k]))]]

\* a variant with the remainder of C (toward zero) in place of numpy's
ColorDistortTransform_hue_truncating(self, h) ==
    LET t == h + self.h_delta.v
        r == IF t >= 0 THEN t % 180 ELSE -((-t) % 180)
    IN  IF self.h_delta.none THEN h ELSE r % 256

\* lines 318-321 on one hue value of the uint8 HSV buffer
ColorDistortTransform_hue(self, h) ==
    IF self.h_delta.none THEN h ELSE ((h + self.h_delta.v) % 180) % 256

\* lines 318-324: the HSV buffer handed to the HSV -> BGR conversion, from
\* the HSV buffer `hsv` the first conversion gave
ColorDistortTransform_hsv(self, hsv) ==
    LET s(p) == IF self.s_alpha.none THEN p ELSE ColorDistortTransform_convert(p, self.s_alpha.v, R(0))
    IN  [i \in DOMAIN hsv |-> <<ColorDistortTransform_hue(self, hsv[i][1]), s(hsv[i][2]), hsv[i][3]>>]

\* cv2.cvtColor needs three channels; its results are the backend's
ColorDistortTransform_apply_image(self, img) ==
    IF img.c # 3
    THEN Out(self, img, Raise("cv2.error"))
    ELSE Out(self, img, Ret(Backend(img.h, img.w, 3)))

ColorDistortTransform_apply_coords(self, coords) == Out(self, coords, Ret(coords))

ColorDistortTransform_inverse(self) == Out(self, None, Ret(NoOpTransform))

ColorDistortTransform_apply_segmentation(self, segmentation) ==
    Out(self, segmentation, Ret(segmentation))

\* ------------------------------------------------------ LetterboxTransform
LetterboxTransform(target_size, scale, dx, dy) ==
    [cls |-> "LetterboxTransform", target_size |-> target_size, scale |-> scale,
     dx |-> dx, dy |-> dy]

\* numpy's `a[...] = b` broadcasts b to the slice: an axis of b fits when it
\* has the length of the slice's axis or length 1
Fits(len, axis) == len = axis \/ len = 1

LetterboxTransform_apply_image(self, img) ==
    LET sw == Trunc(RMul(self.scale, R(img.w)))
        sh == Trunc(RMul(self.scale, R(img.h)))
        out_w == self.target_size[1]
        out_h == self.target_size[2]
        rows == SliceLen(self.dy, self.dy + sh, out_h)
        cols == SliceLen(self.dx, self.dx + sw, out_w)
    IN  IF ndim(img) # 3
        THEN Out(self, img, Raise("ValueError"))
        ELSE IF sw <= 0 \/ sh <= 0
        THEN Out(self, img, Raise("cv2.error"))
        ELSE IF img.c = 1 /\ ~(Fits(sw, 3) /\ Fits(sh, cols))
        THEN Out(self, img, Raise("ValueError"))
        ELSE IF img.c # 1 /\ ~(Fits(img.c, 3) /\ Fits(sw, cols) /\ Fits(sh, rows))
        THEN Out(self, img, Raise("ValueError"))
        ELSE Out(self, img, Ret(Backend(out_h, out_w, 3)))

LetterboxTransform_apply_coords(self, coords) ==
    LET f(p) == <<RAdd(RMul(p[1], self.scale), R(self.dx)),
                  RAdd(RMul(p[2], self.scale), R(self.dy))>>
    IN  Out(self, coords, Ret(Coords("float", SeqMap(f, coords.pts))))

LetterboxTransform_inverse(self) == Out(self, None, Ret(NoOpTransform))

LetterboxTransform_apply_segmentation(self, segmentation) ==
    Out(self, segmentation, Ret(segmentation))

\* ---------------------------------------------------- PerspectiveTransform
PerspectiveTransform(M, perspective, border) ==
    [cls |-> "PerspectiveTransform", M |-> M, perspective |-> perspective,
     border |-> border]

PerspectiveTransform_apply_image(self, img) ==
    LET height == img.h + self.border[1] * 2
        width == img.w + self.border[2] * 2
    IN  IF width <= 0 \/ height <= 0
        THEN Out(self, img, Raise("cv2.error"))
        ELSE Out(self, img, Ret(Backend(height, width, IF img.c = 1 THEN 0 ELSE img.c)))

\* xy @ M.T, then the division by the third coordinate (M's third row is
\* never all zero in the model)
PerspectiveTransform_apply_coords(self, coords) ==
    LET row(k, p) == RAdd(RAdd(RMul(R(self.M[k][1]), p[1]), RMul(R(self.M[k][2]), p[2])),
                          R(self.M[k][3]))
        f(p) == IF self.perspective
                THEN <<RDiv(row(1, p), row(3, p)), RDiv(row(2, p), row(3, p))>>
                ELSE <<row(1, p), row(2, p)>>
    IN  Out(self, coords, Ret(Coords("float", SeqMap(f, coords.pts))))

PerspectiveTransform_inverse(self) == Out(self, None, Ret(NoOpTransform))

PerspectiveTransform_apply_segmentation(self, segmentation) ==
    Out(self, segmentation, Ret(segmentation))

\* --------------------------------------------------------- CutoutTransform
CutoutTransform(region) == [cls |-> "CutoutTransform", region |-> region]

\* the 0-based indices Python's a[lo:hi] selects on an axis of length n
SliceIdx(lo, hi, n) ==
    LET clip(i) == IF i < 0 THEN (IF i + n < 0 THEN 0 ELSE i + n)
                   ELSE (IF i > n THEN n ELSE i)
    IN  {i \in 0..(n - 1) : clip(lo) <= i /\ i < clip(hi)}

Min(a, b) == IF a < b THEN a ELSE b

\* writes into the caller's buffer and returns that same buffer
CutoutTransform_apply_image(self, img) ==
    LET x == self.region[1]
        y == self.region[2]
        w == self.region[3]
        h == self.region[4]
        x2 == Min(img.w - 1, x + w)
        y2 == Min(img.h - 1, y + h)
        rows == SliceIdx(y, y2, img.h)
        cols == SliceIdx(x, x2, img.w)
        zero(i) == ((i - 1) \div img.w) \in rows /\ ((i - 1) % img.w) \in cols
        new == Image(img.h, img.w, img.c,
                     [i \in DOMAIN img.px |->
                         IF zero(i) THEN [k \in DOMAIN img.px[i] |-> 0] ELSE img.px[i]])
    IN  IF ndim(img) # 3
        THEN Out(self, img, Raise("IndexError"))
        ELSE Out(self, new, Ret(new))

CutoutTransform_apply_coords(self, coords) == Out(self, coords, Ret(coords))

\* ------------------------------------------- registered rotated-box handlers
\* a variant that mirrors the centre and keeps the angle
HFlip_rotated_box_keeps_angle(transform, rotated_boxes) ==
    LET dt == rotated_boxes.dtype
        f(b) == <<Store(dt, RSub(R(transform.width), b[1])), b[2], b[3], b[4], b[5]>>
        new == RBoxes(dt, SeqMap(f, rotated_boxes.boxes))
    IN  Out(transform, new, Ret(new))

\* writes into the caller's array and returns that same array
HFlip_rotated_box(transform, rotated_boxes) ==
    LET dt == rotated_boxes.dtype
        f(b) == <<Store(dt, RSub(R(transform.width), b[1])), b[2], b[3], b[4],
                  Store(dt, RNeg(b[5]))>>
        new == RBoxes(dt, SeqMap(f, rotated_boxes.boxes))
    IN  Out(transform, new, Ret(new))

\* the square root of a rational that is a square
Sqrt(q) ==
    LET n == CHOOSE k \in 0..q[1] : k * k = q[1]
        d == CHOOSE k \in 1..q[2] : k * k = q[2]
    IN  <<n, d>>

\* np.arctan2(y, x) * 180 / np.pi on the axes
ArcTan2Deg(y, x) ==
    CASE y[1] = 0 /\ x[1] >= 0 -> R(0)
      [] y[1] = 0 /\ x[1] < 0 -> R(180)
      [] y[1] > 0 /\ x[1] = 0 -> R(90)
      [] y[1] < 0 /\ x[1] = 0 -> R(-90)

\* box angles are multiples of 90 degrees in the model.  An in-place `*=` of
\* an integer array by a float is refused by numpy (UFuncTypeError); on a
\* float array the handler writes into the caller's array and returns it
Resize_rotated_box(transform, rotated_boxes) ==
    LET scale_factor_x == RDiv(R(transform.new_w), R(transform.w))
        scale_factor_y == RDiv(R(transform.new_h), R(transform.h))
        f(b) ==
            LET c == Cos(Trunc(b[5]))
                s == Sin(Trunc(b[5]))
                xc == RMul(scale_factor_x, c)
                ys == RMul(scale_factor_y, s)
                xs == RMul(scale_factor_x, s)
                yc == RMul(scale_factor_y, c)
            IN  <<RMul(b[1], scale_factor_x), RMul(b[2], scale_factor_y),
                  RMul(b[3], Sqrt(RAdd(RMul(xc, xc), RMul(ys, ys)))),
                  RMul(b[4], Sqrt(RAdd(RMul(xs, xs), RMul(yc, yc)))),
                  ArcTan2Deg(xs, yc)>>
        new == RBoxes(rotated_boxes.dtype, SeqMap(f, rotated_boxes.boxes))
    IN  IF rotated_boxes.dtype = "int"
        THEN Out(transform, rotated_boxes, Raise("UFuncTypeError"))
        ELSE Out(transform, new, Ret(new))

NoOp_rotated_box(transform, rotated_boxes) ==
    Out(transform, rotated_boxes, Ret(rotated_boxes))

\* ------------------------------------------------------- method resolution
\* t.apply_image(img): the class's own method
apply_image(t, img) ==
    CASE t.cls = "ExtentTransform" -> ExtentTransform_apply_image(t, img, "None")
      [] t.cls = "ResizeTransform" -> ResizeTransform_apply_image(t, img, "None")
      [] t.cls = "RotationTransform" -> RotationTransform_apply_image(t, img, "None")
      [] t.cls = "ColorTransform" -> ColorTransform_apply_image(t, img)
      [] t.cls = "PILColorTransform" -> PILColorTransform_apply_image(t, img)
      [] t.cls = "ColorDistortTransform" -> ColorDistortTransform_apply_image(t, img)
      [] t.cls = "LetterboxTransform" -> LetterboxTransform_apply_image(t, img)
      [] t.cls = "PerspectiveTransform" -> PerspectiveTransform_apply_image(t, img)
      [] t.cls = "CutoutTransform" -> CutoutTransform_apply_image(t, img)
      [] t.cls = "CropTransform" -> CropTransform_apply_image(t, img)

apply_coords(t, coords) ==
    CASE t.cls = "ExtentTransform" -> ExtentTransform_apply_coords(t, coords)
      [] t.cls = "ResizeTransform" -> ResizeTransform_apply_coords(t, coords)
      [] t.cls = "RotationTransform" -> RotationTransform_apply_coords(t, coords)
      [] t.cls \in {"ColorTransform", "PILColorTransform"} -> ColorTransform_apply_coords(t, coords)
      [] t.cls = "ColorDistortTransform" -> ColorDistortTransform_apply_coords(t, coords)
      [] t.cls = "LetterboxTransform" -> LetterboxTransform_apply_coords(t, coords)
      [] t.cls = "PerspectiveTransform" -> PerspectiveTransform_apply_coords(t, coords)
      [] t.cls = "CutoutTransform" -> CutoutTransform_apply_coords(t, coords)

\* CutoutTransform defines none: the base class's default is apply_image
apply_segmentation(t, segmentation) ==
    CASE t.cls = "ExtentTransform" -> ExtentTransform_apply_segmentation(t, segmentation)
      [] t.cls = "ResizeTransform" -> ResizeTransform_apply_segmentation(t, segmentation)
      [] t.cls = "RotationTransform" -> RotationTransform_apply_segmentation(t, segmentation)
      [] t.cls \in {"ColorTransform", "PILColorTransform"} ->
             ColorTransform_apply_segmentation(t, segmentation)
      [] t.cls = "ColorDistortTransform" ->
             ColorDistortTransform_apply_segmentation(t, segmentation)
      [] t.cls = "LetterboxTransform" -> LetterboxTransform_apply_segmentation(t, segmentation)
      [] t.cls = "PerspectiveTransform" ->
             PerspectiveTransform_apply_segmentation(t, segmentation)
      [] t.cls = "CutoutTransform" -> CutoutTransform_apply_image(t, segmentation)

\* register_type("rotated_box", ...): the classes with a handler
Registered == {"HFlipTransform", "ResizeTransform", "NoOpTransform"}

apply_rotated_box(t, rotated_boxes) ==
    CASE t.cls = "HFlipTransform" -> HFlip_rotated_box(t, rotated_boxes)
      [] t.cls = "ResizeTransform" -> Resize_rotated_box(t, rotated_boxes)
      [] t.cls = "NoOpTransform" -> NoOp_rotated_box(t, rotated_boxes)

\* CutoutTransform defines none: the base class's inverse raises
inverse(t) ==
    CASE t.cls = "ResizeTransform" -> ResizeTransform_inverse(t)
      [] t.cls = "RotationTransform" -> RotationTransform_inverse(t)
      [] t.cls \in {"ColorTransform", "PILColorTransform"} -> ColorTransform_inverse(t)
      [] t.cls = "ColorDistortTransform" -> ColorDistortTransform_inverse(t)
      [] t.cls = "LetterboxTransform" -> LetterboxTransform_inverse(t)
      [] t.cls = "PerspectiveTransform" -> PerspectiveTransform_inverse(t)
      [] t.cls \in {"ExtentTransform", "CutoutTransform"} ->
             Out(t, None, Raise("NotImplementedError"))

Apply(name, t, x) ==
    CASE name = "apply_image" -> apply_image(t, x)
      [] name = "apply_coords" -> apply_coords(t, x)
      [] name = "apply_segmentation" -> apply_segmentation(t, x)
      [] name = "apply_rotated_box" -> apply_rotated_box(t, x)

\* ------------------------------------------------------------ input values
Dims == 1..MaxDim
Angles == {-360, -90, 0, 30, 90, 360}
BoxAngles == {-90, 0, 90, 180}
Levels == {101, 250}
Hues == 0..179

Local == {"ExtentTransform", "ResizeTransform", "RotationTransform", "ColorTransform",
          "PILColorTransform", "ColorDistortTransform", "LetterboxTransform",
          "PerspectiveTransform", "CutoutTransform"}

Identity3 == << <<1, 0, 0>>, <<0, 1, 0>>, <<0, 0, 1>> >>
Shift3 == << <<1, 0, 1>>, <<0, 1, 1>>, <<0, 0, 1>> >>
Persp3 == << <<1, 0, 0>>, <<0, 1, 0>>, <<0, 0, 2>> >>

Transforms ==
    {ExtentTransform(<<0, 0, x1, y1>>, <<h, w>>, "LINEAR", 0) :
        x1 \in 1..2, y1 \in 1..2, h \in Dims, w \in Dims}
    \cup {ResizeTransform(h, w, nh, nw, i) :
        h \in Dims, w \in Dims, nh \in Dims, nw \in Dims, i \in {"None"}}
    \cup {RotationTransform(h, w, a, e, "None", "None") :
        h \in Dims, w \in Dims, a \in Angles, e \in BOOLEAN}
    \cup {ColorTransform(o) : o \in {"invert"}}
    \cup {PILColorTransform(o) : o \in {"invert"}}
    \cup {ColorDistortTransform(a, b, hd, sa) :
        a \in {NoneVal, Some(<<3, 2>>)},
        b \in {NoneVal, Some(R(32))},
        hd \in {NoneVal, Some(-200), Some(-18), Some(18), Some(200)},
        sa \in {NoneVal, Some(R(2))}}
    \cup {LetterboxTransform(<<ow, oh>>, sc, dx, dy) :
        ow \in Dims, oh \in Dims, sc \in {<<1, 2>>, R(1)}, dx \in 0..1, dy \in {0}}
    \cup {PerspectiveTransform(m[1], m[2], <<b0, b1>>) :
        m \in {<<Identity3, FALSE>>, <<Shift3, FALSE>>, <<Persp3, TRUE>>},
        b0 \in 0..1, b1 \in 0..1}
    \cup {CutoutTransform(<<x, y, w, h>>) :
        x \in 0..1, y \in 0..1, w \in Dims, h \in Dims}
    \cup {HFlipTransform(w) : w \in Dims}
    \cup {NoOpTransform}

Images ==
    {Uniform(h, w, c, [k \in 1..(IF c = 0 THEN 1 ELSE c) |-> v]) :
        h \in Dims, w \in Dims, c \in {0, 1, 3}, v \in Levels}

IntVals == {R(i) : i \in 0..MaxCoord}
FloatVals == IntVals \cup {<<1, 2>>}

SeqsUpTo(S, n) == UNION {[1..k -> S] : k \in 0..n}

CoordArrays ==
    {Coords("int", p) : p \in SeqsUpTo(IntVals \X IntVals, MaxPts)}
    \cup {Coords("float", p) : p \in SeqsUpTo(FloatVals \X FloatVals, MaxPts)}

BoxRows(V) == {<<cx, R(1), R(2), R(1), R(a)>> : cx \in V, a \in BoxAngles}

RBoxArrays ==
    {RBoxes("int", b) : b \in SeqsUpTo(BoxRows(IntVals), MaxPts)}
    \cup {RBoxes("float", b) : b \in SeqsUpTo(BoxRows(FloatVals), MaxPts)}

HSVPixels == {<<h, 200, 100>> : h \in Hues}

\* ------------------------------------- wrappers (flip.py, pad.py, resize.py)
\* a Python list, a tuple (imgs, boxes) and an N x 4 array of boxes, each
\* row <<x0, y0, x1, y1>>
PyList(items) == [kind |-> "list", items |-> items]

Pair(imgs, boxes) == [kind |-> "tuple", imgs |-> imgs, boxes |-> boxes]

Boxes(rows) == [kind |-> "boxes", rows |-> rows]

\* the arguments of a wrapper's __call__
CallArgs(imgs, boxes) == [kind |-> "args", imgs |-> imgs, boxes |-> boxes]

\* `return imgs if boxes is None else (imgs, boxes)`
ImgsOrPair(imgs, boxes) == IF boxes = None THEN imgs ELSE Pair(imgs, boxes)

\* flip.py: the width w is an attribute only once flip_img has run
RandomFlip(flip_ratio) == [cls |-> "RandomFlip", flip_ratio |-> flip_ratio, w |-> NoneVal]

\* cv2.flip(img, 1) mirrors every row
RandomFlip_flip_img(self, img) ==
    Out([self EXCEPT !.w = Some(img.w)], img,
        Ret(Image(img.h, img.w, img.c,
                  [i \in 1..(img.h * img.w) |->
                      LET r == (i - 1) \div img.w
                          col == (i - 1) % img.w
                      IN  img.px[r * img.w + (img.w - 1 - col) + 1]])))

RandomFlip_flip_boxes(self, boxes) ==
    Boxes([i \in DOMAIN boxes.rows |->
              [k \in DOMAIN boxes.rows[i] |->
                  IF (k - 1) % 4 = 0 THEN RSub(R(self.w.v), boxes.rows[i][k + 2])
                  ELSE IF (k - 1) % 4 = 2 THEN RSub(R(self.w.v), boxes.rows[i][k - 2])
                  ELSE boxes.rows[i][k]]])

\* `[self.flip_img(x) for x in imgs]`: the images in order, each leaving
\* its width in the object
RECURSIVE RandomFlip_flip_imgs(_, _, _)
RandomFlip_flip_imgs(self, items, acc) ==
    IF items = <<>> THEN Out(self, None, Ret(PyList(acc)))
    ELSE LET o == RandomFlip_flip_img(self, Head(items))
         IN  RandomFlip_flip_imgs(o.self, Tail(items), Append(acc, o.ret.val))

\* random is the value random.random() returns
RandomFlip_call(self, imgs, boxes, random) ==
    IF RLess(self.flip_ratio, random)
    THEN Out(self, CallArgs(imgs, boxes), Ret(ImgsOrPair(imgs, boxes)))
    ELSE LET o == IF imgs.kind = "list"
                  THEN RandomFlip_flip_imgs(self, imgs.items, <<>>)
                  ELSE RandomFlip_flip_img(self, imgs)
             b == IF boxes = None THEN None
                  ELSE IF imgs.kind = "list"
                  THEN PyList([i \in DOMAIN boxes.items |->
                                  RandomFlip_flip_boxes(o.self, boxes.items[i])])
                  ELSE RandomFlip_flip_boxes(o.self, boxes)
         IN  Out(o.self, CallArgs(imgs, boxes), Ret(ImgsOrPair(o.ret.val, b)))

\* pad.py: the offsets x, y are attributes only once pad_img has run
Pad(out_size, pad_val) ==
    [cls |-> "Pad", out_size |-> out_size, pad_val |-> pad_val, x |-> NoneVal, y |-> NoneVal]

Pad_pad_img(self, img) ==
    LET h == img.h
        w == img.w
        ow == self.out_size[1]
        oh == self.out_size[2]
        x == (ow - w) \div 2
        y == (oh - h) \div 2
    IN  IF ~(ow >= w /\ oh >= h) THEN Out(self, img, Raise("AssertionError"))
        ELSE Out([self EXCEPT !.x = Some(x), !.y = Some(y)], img,
                 Ret(Image(oh, ow, 3,
                           [i \in 1..(oh * ow) |->
                               LET r == (i - 1) \div ow
                                   col == (i - 1) % ow
                               IN  IF y <= r /\ r < y + h /\ x <= col /\ col < x + w
                                   THEN img.px[(r - y) * w + (col - x) + 1]
                                   ELSE <<self.pad_val, self.pad_val, self.pad_val>>])))

Pad_pad_boxes(self, boxes) ==
    Boxes([i \in DOMAIN boxes.rows |->
              [k \in DOMAIN boxes.rows[i] |->
                  IF (k - 1) % 2 = 0 THEN RAdd(boxes.rows[i][k], R(self.x.v))
                  ELSE RAdd(boxes.rows[i][k], R(self.y.v))]])

\* `[self.pad_img(x) for x in imgs]`: stops at the first image that does
\* not fit, the offsets of the images before it already stored
RECURSIVE Pad_pad_imgs(_, _, _)
Pad_pad_imgs(self, items, acc) ==
    IF items = <<>> THEN Out(self, None, Ret(PyList(acc)))
    ELSE LET o == Pad_pad_img(self, Head(items))
         IN  IF o.ret.tag = "raise" THEN o
             ELSE Pad_pad_imgs(o.self, Tail(items), Append(acc, o.ret.val))

Pad_call(self, imgs, boxes) ==
    LET o == IF imgs.kind = "list"
             THEN Pad_pad_imgs(self, imgs.items, <<>>)
             ELSE Pad_pad_img(self, imgs)
        b == IF boxes = None THEN None
             ELSE IF imgs.kind = "list"
             THEN PyList([i \in DOMAIN boxes.items |-> Pad_pad_boxes(o.self, boxes.items[i])])
             ELSE Pad_pad_boxes(o.self, boxes)
    IN  IF o.ret.tag = "raise" THEN Out(o.self, CallArgs(imgs, boxes), o.ret)
        ELSE Out(o.self, CallArgs(imgs, boxes), Ret(ImgsOrPair(o.ret.val, b)))

\* resize.py: scale_factor is an attribute only once resize_img has run
Resize(img_scale, keep_ratio) ==
    [cls |-> "Resize", img_scale |-> img_scale, keep_ratio |-> keep_ratio,
     scale_factor |-> NoneVal]

\* cv2.resize refuses an empty output size; scale_factor is stored before
Resize_resize_img(self, img) ==
    LET tw == self.img_scale[1]
        th == self.img_scale[2]
        h == img.h
        w == img.w
        sw == RDiv(R(tw), R(w))
        sh == RDiv(R(th), R(h))
        s == IF RLess(sh, sw) THEN sh ELSE sw
        ow == IF self.keep_ratio THEN Trunc(RMul(s, R(w))) ELSE tw
        oh == IF self.keep_ratio THEN Trunc(RMul(s, R(h))) ELSE th
        self1 == [self EXCEPT !.scale_factor = Some(IF self.keep_ratio THEN s ELSE R(1))]
    IN  IF ow <= 0 \/ oh <= 0 THEN Out(self1, img, Raise("cv2.error"))
        ELSE Out(self1, img, Ret(Backend(oh, ow, img.c)))

Resize_resize_boxes(self, boxes) ==
    Boxes([i \in DOMAIN boxes.rows |->
              [k \in DOMAIN boxes.rows[i] |-> RMul(boxes.rows[i][k], self.scale_factor.v)]])

\* `[self.resize_img(x) for x in imgs]`
RECURSIVE Resize_resize_imgs(_, _, _)
Resize_resize_imgs(self, items, acc) ==
    IF items = <<>> THEN Out(self, None, Ret(PyList(acc)))
    ELSE LET o == Resize_resize_img(self, Head(items))
         IN  IF o.ret.tag = "raise" THEN o
             ELSE Resize_resize_imgs(o.self, Tail(items), Append(acc, o.ret.val))

Resize_call(self, imgs, boxes) ==
    LET o == IF imgs.kind = "list"
             THEN Resize_resize_imgs(self, imgs.items, <<>>)
             ELSE Resize_resize_img(self, imgs)
        b == IF boxes = None THEN None
             ELSE IF imgs.kind = "list"
             THEN PyList([i \in DOMAIN boxes.items |->
                             Resize_resize_boxes(o.self, boxes.items[i])])
             ELSE Resize_resize_boxes(o.self, boxes)
    IN  IF o.ret.tag = "raise" THEN Out(o.self, CallArgs(imgs, boxes), o.ret)
        ELSE Out(o.self, CallArgs(imgs, boxes), Ret(ImgsOrPair(o.ret.val, b)))

\* ------------------------------------------------------- wrapper inputs
\* colour images whose pixels differ from one another
Ramp(h, w) == Image(h, w, 3, [i \in 1..(h * w) |-> <<i, i, i>>])

WImages == {Ramp(h, w) : h \in Dims, w \in Dims}

BoxArrays ==
    {Boxes(rows) : rows \in SeqsUpTo({<<x0, R(0), R(x1), R(1)>> :
                                         x0 \in {R(0), <<1, 2>>}, x1 \in 1..MaxCoord}, MaxPts)}

\* a single image with or without boxes, or a list of images with or without
\* a list of box arrays of the same length
WCalls ==
    {CallArgs(img, b) : img \in WImages, b \in {None} \cup BoxArrays}
    \cup UNION {{CallArgs(PyList(imgs), None) : imgs \in [1..n -> WImages]}
                \cup {CallArgs(PyList(imgs), PyList(bs)) :
                         imgs \in [1..n -> WImages], bs \in [1..n -> BoxArrays]} :
                n \in 1..MaxList}

Randoms == {R(0), <<1, 4>>, <<3, 4>>}

Wrappers ==
    {RandomFlip(f) : f \in {<<1, 2>>, R(1)}}
    \cup {Pad(<<ow, oh>>, 0) : ow \in {1, MaxDim + 1}, oh \in {1, MaxDim + 1}}
    \cup {Resize(<<tw, th>>, k) : tw \in Dims, th \in Dims, k \in BOOLEAN}

\* ------------------------------------------------------------------- state
VARIABLES
    self,     \* the transform object: its class and stored fields
    op,       \* the operation last called on it
    arg0,     \* the caller's argument object as it was when that call began
    arg,      \* the same object when the call returned
    ret,      \* what the call returned or raised
    prev,     \* the result of the call before, when this call was handed
              \* the same argument object again; NoCall otherwise
    reuse,    \* how many times in a row the same object was handed in again
    mid       \* ColorDistortTransform.apply_image: the buffers in between

vars == <<self, op, arg0, arg, ret, prev, reuse, mid>>

NoMid == [pre |-> <<>>, hsv0 |-> <<>>, hsv1 |-> <<>>]

\* the buffers of ColorDistortTransform.apply_image when the BGR -> HSV
\* conversion gives the pixel hsv for the (uniform) buffer handed to it
Mid(t, img, hsv) ==
    IF t.cls = "ColorDistortTransform" /\ img.c = 3
    THEN LET hsv0 == [i \in DOMAIN img.px |-> hsv]
         IN  [pre |-> ColorDistortTransform_pre(t, img), hsv0 |-> hsv0,
              hsv1 |-> ColorDistortTransform_hsv(t, hsv0)]
    ELSE NoMid

Init ==
    /\ self \in Transforms
    /\ op = "idle"
    /\ arg0 = None
    /\ arg = None
    /\ ret = NoCall
    /\ prev = NoCall
    /\ reuse = 0
    /\ mid = NoMid

\* the call leaves its outcome in the state
Called(name, x, out, m) ==
    /\ self' = out.self
    /\ op' = name
    /\ arg0' = x
    /\ arg' = out.arg
    /\ ret' = out.ret
    /\ mid' = m

Fresh == prev' = NoCall /\ reuse' = 0

\* no call is in progress and the caller holds no argument or result
Idle == op = "idle"

CallApplyImage ==
    /\ Idle
    /\ self.cls \in Local
    /\ \E img \in Images :
          \E hsv \in IF self.cls = "ColorDistortTransform" /\ img.c = 3
                     THEN HSVPixels ELSE {<<0, 0, 0>>} :
             Called("apply_image", img, apply_image(self, img), Mid(self, img, hsv))
    /\ Fresh

CallApplyCoords ==
    /\ Idle
    /\ self.cls \in Local
    /\ \E coords \in CoordArrays :
          Called("apply_coords", coords, apply_coords(self, coords), NoMid)
    /\ Fresh

CallApplySegmentation ==
    /\ Idle
    /\ self.cls \in Local
    /\ \E segmentation \in Images :
          Called("apply_segmentation", segmentation,
                 apply_segmentation(self, segmentation), NoMid)
    /\ Fresh

CallRotatedBox ==
    /\ Idle
    /\ self.cls \in Registered
    /\ \E rotated_boxes \in RBoxArrays :
          Called("apply_rotated_box", rotated_boxes,
                 apply_rotated_box(self, rotated_boxes), NoMid)
    /\ Fresh

CallInverse ==
    /\ Idle
    /\ self.cls \in Local
    /\ Called("inverse", None, inverse(self), NoMid)
    /\ Fresh

\* the caller hands the object of the last call to the same operation again
CallAgain ==
    /\ op \in {"apply_image", "apply_coords", "apply_segmentation", "apply_rotated_box"}
    /\ reuse < MaxReuse
    /\ Called(op, arg, Apply(op, self, arg),
              IF op = "apply_image" /\ mid # NoMid
              THEN Mid(self, arg, mid.hsv0[1]) ELSE NoMid)
    /\ prev' = ret
    /\ reuse' = reuse + 1

\* the caller drops the argument and the result of the last call; the
\* transform object lives on
Release ==
    /\ ~Idle
    /\ self' = self
    /\ op' = "idle"
    /\ arg0' = None
    /\ arg' = None
    /\ ret' = NoCall
    /\ mid' = NoMid
    /\ Fresh

Next ==
    \/ CallApplyImage
    \/ CallApplyCoords
    \/ CallApplySegmentation
    \/ CallRotatedBox
    \/ CallInverse
    \/ CallAgain
    \/ Release

Spec == Init /\ [][Next]_vars

\* ------------------------------------------------------------------ claims
Geometric == {"ExtentTransform", "ResizeTransform", "RotationTransform",
              "LetterboxTransform", "PerspectiveTransform"}

ApplyOps == {"apply_image", "apply_coords", "apply_segmentation", "apply_rotated_box"}

\* C1: inverse() of a LetterboxTransform and of a PerspectiveTransform raises
\* for every parameter value; it never returns a transform.
C1_InverseNotInvertible ==
    (op = "inverse" /\ self.cls \in {"LetterboxTransform", "PerspectiveTransform"})
        => ret.tag = "raise"

\* C2: RotationTransform.inverse() raises when expand is False; when expand
\* is True it returns [rotation of the (bound_h, bound_w) canvas by -angle
\* with expansion, crop of size (w, h) at ((rot.bound_w - w) // 2,
\* (rot.bound_h - h) // 2)], and that pair takes the rotated image of an
\* (h, w) image back to size (h, w).
C2_RotationInverse ==
    (op = "inverse" /\ self.cls = "RotationTransform") =>
        IF ~self.expand
        THEN ret.tag = "raise"
        ELSE /\ ret.tag = "value"
             /\ Len(ret.val) = 2
             /\ LET rot == ret.val[1]
                    crop == ret.val[2]
                    img == Uniform(self.h, self.w, 3, <<100, 100, 100>>)
                    rotated == RotationTransform_apply_image(self, img, "None").ret
                    back == RotationTransform_apply_image(rot, rotated.val, "None").ret
                    cut == CropTransform_apply_image(crop, back.val).ret
                IN  /\ rot.cls = "RotationTransform"
                    /\ <<rot.h, rot.w>> = <<self.bound_h, self.bound_w>>
                    /\ rot.angle = -self.angle
                    /\ rot.expand
                    /\ crop.cls = "CropTransform"
                    /\ <<crop.w, crop.h>> = <<self.w, self.h>>
                    /\ 2 * crop.x0 \in {rot.bound_w - self.w, rot.bound_w - self.w - 1}
                    /\ 2 * crop.y0 \in {rot.bound_h - self.h, rot.bound_h - self.h - 1}
                    /\ rotated.tag = "value"
                    /\ back.tag = "value"
                    /\ <<cut.val.h, cut.val.w>> = <<self.h, self.w>>

C2_Witness ==
    /\ op = "inverse"
    /\ self.cls = "RotationTransform"
    /\ self.expand
    /\ self.angle = 30
    /\ self.bound_w > self.w
    /\ ret.tag = "value"
    /\ ret.val[2].x0 > 0

\* C3: for every transform that changes image geometry, apply_segmentation of
\* a mask returns a mask of the height and width that apply_image returns for
\* an image of the mask's height and width.
C3_SegmentationFollowsImage ==
    (op = "apply_segmentation" /\ self.cls \in Geometric) =>
        LET im == apply_image(self, Uniform(arg0.h, arg0.w, 3, <<100, 100, 100>>)).ret
        IN  im.tag = "value" =>
                /\ ret.tag = "value"
                /\ <<ret.val.h, ret.val.w>> = <<im.val.h, im.val.w>>

\* C4: no call of apply_image, apply_coords, apply_segmentation, a registered
\* rotated-box handler or inverse(), in any order and any number of times,
\* changes a stored field of the transform.
C4_FieldsFrozen == [][self' = self]_vars

C4_Witness ==
    /\ self.cls = "RotationTransform"
    /\ op = "apply_image"
    /\ reuse = 1
    /\ ret.tag = "value"
    /\ <<arg0.h, arg0.w>> # <<self.h, self.w>>

\* C5: calling the same apply operation twice with the same input payload
\* returns equal outputs, and a call leaves the caller's input payload as it
\* was.
C5_SameInputSameOutput ==
    /\ op \in ApplyOps => arg = arg0
    /\ reuse >= 1 => ret = prev

\* C6: the inverse of ResizeTransform (h, w, new_h, new_w, interp) is
\* ResizeTransform (new_h, new_w, h, w, interp); its apply_coords takes
\* T.apply_coords(v) back to v for every point array v; an image resized by
\* T and then by the inverse has size (h, w).
C6_ResizeRoundTrip ==
    (op = "apply_coords" /\ self.cls = "ResizeTransform") =>
        LET inv == ResizeTransform_inverse(self).ret.val
            img == Uniform(self.h, self.w, 3, <<100, 100, 100>>)
            there == ResizeTransform_apply_image(self, img, "None").ret
            back == ResizeTransform_apply_image(inv, there.val, "None").ret
        IN  /\ inv = ResizeTransform(self.new_h, self.new_w, self.h, self.w, self.interp)
            /\ ret.tag = "value"
            /\ ResizeTransform_apply_coords(inv, ret.val).ret.val.pts = arg0.pts
            /\ back.tag = "value"
            /\ <<back.val.h, back.val.w>> = <<self.h, self.w>>

\* C7: ResizeTransform.apply_image and RotationTransform.apply_image raise,
\* for every value of the stored parameters, when the (height, width) of the
\* image differs from the transform's (h, w).
C7_ShapeMismatchFails ==
    (/\ op = "apply_image"
     /\ self.cls \in {"ResizeTransform", "RotationTransform"}
     /\ <<arg0.h, arg0.w>> # <<self.h, self.w>>)
        => ret.tag = "raise"

\* C8: the rotated-box handler of HorizontalFlip maps every box
\* (cx, cy, w, h, angle) to (width - cx, cy, w, h, -angle), and applying it
\* twice with the same width returns the original box.
C8_HFlipRotatedBox ==
    (op = "apply_rotated_box" /\ self.cls = "HFlipTransform") =>
        /\ ret.tag = "value"
        /\ Len(ret.val.boxes) = Len(arg0.boxes)
        /\ \A i \in DOMAIN arg0.boxes :
              LET b == arg0.boxes[i]
                  n == ret.val.boxes[i]
              IN  /\ RAdd(n[1], b[1]) = R(self.width)
                  /\ <<n[2], n[3], n[4]>> = <<b[2], b[3], b[4]>>
                  /\ RAdd(n[5], b[5]) = R(0)
        /\ HFlip_rotated_box(self, ret.val).ret.val.boxes = arg0.boxes

C8_Witness ==
    /\ op = "apply_rotated_box"
    /\ self.cls = "HFlipTransform"
    /\ Len(arg0.boxes) >= 1
    /\ arg0.boxes[1][5] = R(90)
    /\ arg0.boxes[1][1] = <<1, 2>>
    /\ self.width = 2
    /\ ret.tag = "value"
    /\ ret.val.boxes[1][1] = <<3, 2>>

\* C9: with h_delta set, a hue h in 0..179 becomes the value in 0..179 that
\* differs from h + h_delta by a multiple of 180, for positive and negative
\* h_delta (170 shifted by +200 gives 10); with h_delta = None the hue is
\* unchanged.
C9_HueWraps ==
    (op = "apply_image" /\ self.cls = "ColorDistortTransform" /\ mid # NoMid) =>
        \A i \in DOMAIN mid.hsv0 :
            LET h == mid.hsv0[i][1]
                n == mid.hsv1[i][1]
            IN  IF self.h_delta.none
                THEN n = h
                ELSE /\ n \in 0..179
                     /\ \E k \in -2..2 : n = h + self.h_delta.v - 180 * k
                     /\ (h = 170 /\ self.h_delta.v = 200) => n = 10

C9_Witness ==
    /\ op = "apply_image"
    /\ self.cls = "ColorDistortTransform"
    /\ mid # NoMid
    /\ ~self.h_delta.none
    /\ self.h_delta.v = 200
    /\ mid.hsv0[1][1] = 170
    /\ mid.hsv1[1][1] = 10

\* C10: a RotationTransform whose angle is a multiple of 360 returns the image
\* unchanged from apply_image and the points unchanged from apply_coords,
\* with expand True or False.
C10_FullTurnIsIdentity ==
    (self.cls = "RotationTransform" /\ self.angle % 360 = 0) =>
        /\ op = "apply_image" => (ret = Ret(arg0) /\ arg = arg0)
        /\ op = "apply_coords" =>
              (ret.tag = "value" /\ ret.val.pts = arg0.pts /\ arg = arg0)

C10_Witness ==
    /\ self.cls = "RotationTransform"
    /\ self.angle = 360
    /\ op = "apply_image"
    /\ ret.tag = "value"
    /\ ret.val = arg0
    /\ arg0.c = 3

\* C11: CutoutTransform.apply_image with region (x, y, w, h) zeroes exactly
\* the pixels of the buffer whose column is in [x, x+w) and whose row is in
\* [y, y+h), the last column and row included when the region reaches the
\* edge, and leaves every other pixel unchanged; apply_coords returns the
\* points unchanged.
C11_CutoutZeroesRegion ==
    /\ (op = "apply_image" /\ self.cls = "CutoutTransform" /\ ndim(arg0) = 3) =>
          /\ ret.tag = "value"
          /\ <<ret.val.h, ret.val.w, ret.val.c>> = <<arg0.h, arg0.w, arg0.c>>
          /\ \A r \in 0..(arg0.h - 1), col \in 0..(arg0.w - 1) :
                LET i == r * arg0.w + col + 1
                    inside == /\ self.region[1] <= col
                              /\ col < self.region[1] + self.region[3]
                              /\ self.region[2] <= r
                              /\ r < self.region[2] + self.region[4]
                IN  IF inside
                    THEN \A k \in DOMAIN ret.val.px[i] : ret.val.px[i][k] = 0
                    ELSE ret.val.px[i] = arg0.px[i]
    /\ (op = "apply_coords" /\ self.cls = "CutoutTransform") => ret = Ret(arg0)

\* Clip to [0, 255] and the truncation of a store into a uint8 buffer
ToUint8(q) ==
    Trunc(IF RLess(q, R(0)) THEN R(0) ELSE IF RLess(R(255), q) THEN R(255) ELSE q)

\* C12 as claimed: with alpha and beta both set, the value of a channel p that
\* enters the colour-space conversion is the single affine alpha * p + beta
\* clipped once to [0, 255].
C12_SingleAffine ==
    (/\ op = "apply_image"
     /\ self.cls = "ColorDistortTransform"
     /\ mid # NoMid
     /\ ~self.alpha.none
     /\ ~self.beta.none) =>
        \A i \in DOMAIN arg0.px : \A k \in DOMAIN arg0.px[i] :
            mid.pre[i][k] = ToUint8(RAdd(RMul(self.alpha.v, R(arg0.px[i][k])), self.beta.v))

\* C12 as amended: with alpha and beta both set, the bias comes first:
\* p + beta is clipped to [0, 255] and stored in the 8-bit buffer, that value
\* times alpha is clipped and stored again, and this is the value that
\* enters the colour-space conversion; the hue and saturation steps work on
\* the converted buffer only (the value channel passes through them).
C12_BiasThenScale ==
    (/\ op = "apply_image"
     /\ self.cls = "ColorDistortTransform"
     /\ mid # NoMid
     /\ ~self.alpha.none
     /\ ~self.beta.none) =>
        /\ \A i \in DOMAIN arg0.px : \A k \in DOMAIN arg0.px[i] :
              mid.pre[i][k] =
                  ToUint8(RMul(self.alpha.v, R(ToUint8(RAdd(R(arg0.px[i][k]), self.beta.v)))))
        /\ arg = arg0
        /\ \A i \in DOMAIN mid.hsv0 : mid.hsv1[i][3] = mid.hsv0[i][3]

C12_Witness ==
    /\ op = "apply_image"
    /\ self.cls = "ColorDistortTransform"
    /\ mid # NoMid
    /\ ~self.alpha.none
    /\ ~self.beta.none
    /\ arg0.px[1] = <<101, 101, 101>>
    /\ mid.pre[1] = <<199, 199, 199>>

\* -------------------------------------------------- wrapper state machine
WInit ==
    /\ self \in Wrappers
    /\ op = "idle"
    /\ arg0 = None
    /\ arg = None
    /\ ret = NoCall
    /\ prev = NoCall
    /\ reuse = 0
    /\ mid = NoMid

CallRandomFlip ==
    /\ Idle
    /\ self.cls = "RandomFlip"
    /\ \E a \in WCalls : \E random \in Randoms :
          Called("__call__", [a EXCEPT !.kind = "args"] @@ [random |-> random],
                 RandomFlip_call(self, a.imgs, a.boxes, random), NoMid)
    /\ Fresh

CallPad ==
    /\ Idle
    /\ self.cls = "Pad"
    /\ \E a \in WCalls : Called("__call__", a, Pad_call(self, a.imgs, a.boxes), NoMid)
    /\ Fresh

CallResize ==
    /\ Idle
    /\ self.cls = "Resize"
    /\ \E a \in WCalls : Called("__call__", a, Resize_call(self, a.imgs, a.boxes), NoMid)
    /\ Fresh

WNext ==
    \/ CallRandomFlip
    \/ CallPad
    \/ CallResize
    \/ Release

WSpec == WInit /\ [][WNext]_vars

\* the box array a wrapper returns for a single-image call / for image i of
\* a list call
ScaledRows(boxes, fx, fy) ==
    Boxes([j \in DOMAIN boxes.rows |->
              <<RMul(boxes.rows[j][1], fx), RMul(boxes.rows[j][2], fy),
                RMul(boxes.rows[j][3], fx), RMul(boxes.rows[j][4], fy)>>])

\* C13: Resize called with one image of size (w, h) and boxes returns the
\* boxes scaled by the factors the image is resized by: s = min(tw/w, th/h)
\* on both axes with keep_ratio, tw/w horizontally and th/h vertically
\* without.
C13_ResizeScalesBoxes ==
    (/\ op = "__call__"
     /\ self.cls = "Resize"
     /\ arg0.imgs.kind = "image"
     /\ arg0.boxes # None
     /\ ret.tag = "value") =>
        LET sw == RDiv(R(self.img_scale[1]), R(arg0.imgs.w))
            sh == RDiv(R(self.img_scale[2]), R(arg0.imgs.h))
            s == IF RLess(sh, sw) THEN sh ELSE sw
        IN  /\ ret.val.kind = "tuple"
            /\ ret.val.boxes = IF self.keep_ratio
                               THEN ScaledRows(arg0.boxes, s, s)
                               ELSE ScaledRows(arg0.boxes, sw, sh)

\* C14: in a call with a list of images and a list of box arrays, RandomFlip
\* (when it flips), Pad and Resize with keep_ratio transform the i-th box
\* array with the flip width, pad offset or scale factor of the i-th image.
C14_BoxesFollowOwnImage ==
    (/\ op = "__call__"
     /\ arg0.imgs.kind = "list"
     /\ arg0.boxes # None
     /\ ret.tag = "value"
     /\ self.cls = "RandomFlip" => ~RLess(self.flip_ratio, arg0.random)
     /\ self.cls = "Resize" => self.keep_ratio) =>
        \A i \in DOMAIN arg0.boxes.items :
            LET img == arg0.imgs.items[i]
                b == arg0.boxes.items[i]
                out == ret.val.boxes.items[i]
            IN  CASE self.cls = "RandomFlip" ->
                       out = Boxes([j \in DOMAIN b.rows |->
                                       <<RSub(R(img.w), b.rows[j][3]), b.rows[j][2],
                                         RSub(R(img.w), b.rows[j][1]), b.rows[j][4]>>])
                  [] self.cls = "Pad" ->
                       LET x == (self.out_size[1] - img.w) \div 2
                           y == (self.out_size[2] - img.h) \div 2
                       IN  out = Boxes([j \in DOMAIN b.rows |->
                                           <<RAdd(b.rows[j][1], R(x)), RAdd(b.rows[j][2], R(y)),
                                             RAdd(b.rows[j][3], R(x)), RAdd(b.rows[j][4], R(y))>>])
                  [] self.cls = "Resize" ->
                       LET sw == RDiv(R(self.img_scale[1]), R(img.w))
                           sh == RDiv(R(self.img_scale[2]), R(img.h))
                           s == IF RLess(sh, sw) THEN sh ELSE sw
                       IN  out = ScaledRows(b, s, s)

====
